---------------------------- MODULE Spec2Model ----------------------------
(***************************************************************************)
(* Marching tetrahedrons (include/marching_tetrahedrons.h) and the cell    *)
(* traversal of main (src/main.cpp).                                       *)
(*                                                                         *)
(* Coordinates and densities are floats in the source.  Here positions     *)
(* are small integers (exact in float), densities are small integers and   *)
(* an interpolated coordinate is the exact rational [n, d] (d > 0, lowest  *)
(* terms), or an IEEE special: [n |-> 1, d |-> 0] is +inf,                 *)
(* [n |-> -1, d |-> 0] is -inf and [n |-> 0, d |-> 0] is NaN.              *)
(* Vectors are sequences; At(s, i) is the source's 0-based s[i].           *)
(***************************************************************************)
EXTENDS Integers, Sequences, FiniteSets

VARIABLES
    pointcloud_with_density, \* PointCloud: parallel vectors vertices, density
    mins, maxs,              \* <<min_x, min_y, min_z>>, <<max_x, max_y, max_z>>
    voxel_d,                 \* <<voxel_dx, voxel_dy, voxel_dz>>
    x, y, z,                 \* loop variables of main
    pc,                      \* position in main / in a harness
    cur_voxel,               \* Voxel of the current cell
    cur_six_tetrahedrons,    \* main's vector handed to divide_into_six_triangles
    cur_six_edges_rule,      \* main's vector handed to get_vertice_density
    triangles,               \* main's result sequence
    callee_tetrahedrons,     \* divide_into_six_triangles' own parameter at return
    callee_edges_rule,       \* get_vertice_density's own parameter at return
    callee_triangles,        \* make_triangle's own parameter at return
    density_reads,           \* subscripts of pointcloud.density read by the last init_voxel_vertices
    interp_calls,            \* calls of interpolation made by the last make_triangle
    visited,                 \* cell origins processed so far, in order
    n_before,                \* triangles.size() before the last cell
    crossed                  \* some visited cell had a tetrahedron with corners on both sides

vars == <<pointcloud_with_density, mins, maxs, voxel_d, x, y, z, pc, cur_voxel,
          cur_six_tetrahedrons, cur_six_edges_rule, triangles,
          callee_tetrahedrons, callee_edges_rule, callee_triangles,
          density_reads, interp_calls, visited, n_before, crossed>>

----------------------------------------------------------------------------
(* Bounds of the model *)

\* sample coordinates of the general point sets lie in 0..MaxCoord on each axis
MaxCoord == 1
\* a general point set holds 1..MaxSamples samples
MaxSamples == 2
\* a step is 1..MaxStep on each axis
MaxStep == 2
\* a bounding box spans 0..MaxExtent on each axis
MaxExtent == 1
\* sample densities are ISOVALUE-1 .. MaxDensity
MaxDensity == 1
\* lattice points per voxel edge used to sample the voxel's volume
Refine == 4

\* parameters.h: the threshold; the sentinel density 1 is on its outside
ISOVALUE == 0

DensityVals == (ISOVALUE - 1)..MaxDensity

\* what a read outside pointcloud.density may return
UBValues == (ISOVALUE - 1)..(MaxDensity + 1)

----------------------------------------------------------------------------
(* Arithmetic *)

Abs(n) == IF n < 0 THEN -n ELSE n

Sgn(n) == IF n < 0 THEN -1 ELSE IF n > 0 THEN 1 ELSE 0

RECURSIVE GCD(_, _)
GCD(a, b) == IF b = 0 THEN a ELSE GCD(b, a % b)

Rat(n, d) ==
    LET g == GCD(Abs(n), Abs(d))
        s == Sgn(d)
    IN  [n |-> (s * n) \div g, d |-> (s * d) \div g]

\* a / b on integer-valued floats
FDiv(a, b) == IF b # 0 THEN Rat(a, b) ELSE [n |-> Sgn(a), d |-> 0]

\* m * k, k an integer-valued float
FMulInt(m, k) ==
    IF m.d # 0 THEN Rat(m.n * k, m.d) ELSE [n |-> m.n * Sgn(k), d |-> 0]

\* a + r, a an integer-valued float
FAddInt(a, r) == IF r.d # 0 THEN Rat(a * r.d + r.n, r.d) ELSE r

At(s, i) == s[i + 1]

----------------------------------------------------------------------------
(* marching_tetrahedrons.h *)

\* mu of interpolation
InterpMu(pt1_density, pt2_density, isovalue) ==
    FDiv(isovalue - pt1_density, pt2_density - pt1_density)

interpolation(pt1, pt2, pt1_density, pt2_density, isovalue) ==
    LET mu == InterpMu(pt1_density, pt2_density, isovalue)
    IN  << FAddInt(pt1[1], FMulInt(mu, pt2[1] - pt1[1])),
           FAddInt(pt1[2], FMulInt(mu, pt2[2] - pt1[2])),
           FAddInt(pt1[3], FMulInt(mu, pt2[3] - pt1[3])) >>

\* v0..v7 of init_voxel_vertices
VoxelCorners(cur_x, cur_y, cur_z, diff_x, diff_y, diff_z) ==
    << <<cur_x,          cur_y,          cur_z>>,
       <<cur_x + diff_x, cur_y,          cur_z>>,
       <<cur_x + diff_x, cur_y,          cur_z + diff_z>>,
       <<cur_x,          cur_y,          cur_z + diff_z>>,
       <<cur_x,          cur_y + diff_y, cur_z>>,
       <<cur_x + diff_x, cur_y + diff_y, cur_z>>,
       <<cur_x + diff_x, cur_y + diff_y, cur_z + diff_z>>,
       <<cur_x,          cur_y + diff_y, cur_z + diff_z>> >>

\* std::find: distance from begin() to the first match, or to end()
Find(vs, v) ==
    IF \E i \in 1..Len(vs) : vs[i] = v
    THEN (CHOOSE i \in 1..Len(vs) : vs[i] = v /\ \A j \in 1..(i - 1) : vs[j] # v) - 1
    ELSE Len(vs)

\* the subscript init_voxel_vertices reads pointcloud.density at
DensitySubscript(idx) == idx - 1

\* the density pushed for one corner; ub is what an out-of-range read returns
CornerDensity(pointcloud, vertex, ub) ==
    LET idx == Find(pointcloud.vertices, vertex)
    IN  IF idx = Len(pointcloud.vertices)
        THEN 1
        ELSE IF DensitySubscript(idx) \in 0..(Len(pointcloud.density) - 1)
             THEN At(pointcloud.density, DensitySubscript(idx))
             ELSE ub

init_voxel_vertices(pointcloud, cur_x, cur_y, cur_z, diff_x, diff_y, diff_z, ub) ==
    LET vs == VoxelCorners(cur_x, cur_y, cur_z, diff_x, diff_y, diff_z)
    IN  [vertices |-> vs,
         density  |-> [i \in 1..8 |-> CornerDensity(pointcloud, vs[i], ub)]]

\* the subscripts of pointcloud.density that init_voxel_vertices reads
DensityReads(pointcloud, vs) ==
    { DensitySubscript(Find(pointcloud.vertices, vs[i])) :
        i \in { j \in 1..Len(vs) : Find(pointcloud.vertices, vs[j]) # Len(pointcloud.vertices) } }

\* what the reads outside pointcloud.density may return for one voxel: any of
\* UBValues when there is such a read (at most one corner matches vertices[0])
OutOfRangeValues(pointcloud, vs) ==
    IF \E k \in DensityReads(pointcloud, vs) : k \notin 0..(Len(pointcloud.density) - 1)
    THEN UBValues
    ELSE {ISOVALUE}

\* (variant: T2 takes corner 4 in place of corner 5)
TetraCorners_SwapT2 ==
    << <<3, 7, 4, 5>>, <<3, 7, 4, 6>>, <<3, 5, 4, 0>>,
       <<5, 1, 0, 3>>, <<5, 1, 3, 2>>, <<3, 5, 2, 6>> >>

\* corner indices of t1..t6, in p0, p1, p2, p3 order
TetraCorners ==
    << <<3, 7, 4, 5>>, <<3, 7, 5, 6>>, <<3, 5, 4, 0>>,
       <<5, 1, 0, 3>>, <<5, 1, 3, 2>>, <<3, 5, 2, 6>> >>

MakeTetrahedron(voxel, c) ==
    [vertices |-> [i \in 1..4 |-> At(voxel.vertices, c[i])],
     density  |-> [i \in 1..4 |-> At(voxel.density, c[i])]]

\* the by-value parameter cur_six_tetrahedrons when the function returns
divide_into_six_triangles(voxel, six_tetrahedrons) ==
    six_tetrahedrons \o [k \in 1..6 |-> MakeTetrahedron(voxel, TetraCorners[k])]

\* (variant: the rows of F F F T and F F T F exchanged)
CaseMask_SwapRows(p0_value, p1_value, p2_value, p3_value) ==
    IF      ~p0_value /\ ~p1_value /\ ~p2_value /\ ~p3_value THEN <<0, 0, 0, 0, 0, 0>>
    ELSE IF ~p0_value /\ ~p1_value /\ ~p2_value /\  p3_value THEN <<0, 1, 0, 1, 1, 0>>
    ELSE IF ~p0_value /\ ~p1_value /\  p2_value /\ ~p3_value THEN <<0, 0, 1, 0, 1, 1>>
    ELSE IF ~p0_value /\ ~p1_value /\  p2_value /\  p3_value THEN <<0, 1, 1, 1, 0, 1>>
    ELSE IF ~p0_value /\  p1_value /\ ~p2_value /\ ~p3_value THEN <<1, 0, 0, 1, 0, 1>>
    ELSE IF ~p0_value /\  p1_value /\ ~p2_value /\  p3_value THEN <<1, 0, 1, 1, 1, 0>>
    ELSE IF ~p0_value /\  p1_value /\  p2_value /\ ~p3_value THEN <<1, 1, 0, 0, 1, 1>>
    ELSE IF ~p0_value /\  p1_value /\  p2_value /\  p3_value THEN <<1, 1, 1, 0, 0, 0>>
    ELSE IF  p0_value /\ ~p1_value /\ ~p2_value /\ ~p3_value THEN <<1, 1, 1, 0, 0, 0>>
    ELSE IF  p0_value /\ ~p1_value /\ ~p2_value /\  p3_value THEN <<1, 1, 0, 0, 1, 1>>
    ELSE IF  p0_value /\ ~p1_value /\  p2_value /\ ~p3_value THEN <<1, 0, 1, 1, 1, 0>>
    ELSE IF  p0_value /\ ~p1_value /\  p2_value /\  p3_value THEN <<1, 0, 0, 1, 0, 1>>
    ELSE IF  p0_value /\  p1_value /\ ~p2_value /\ ~p3_value THEN <<0, 1, 1, 1, 0, 1>>
    ELSE IF  p0_value /\  p1_value /\ ~p2_value /\  p3_value THEN <<0, 1, 0, 1, 1, 0>>
    ELSE IF  p0_value /\  p1_value /\  p2_value /\ ~p3_value THEN <<0, 0, 1, 0, 1, 1>>
    ELSE <<0, 0, 0, 0, 0, 0>>

\* the if / else-if chain of get_vertice_density
CaseMask(p0_value, p1_value, p2_value, p3_value) ==
    IF      ~p0_value /\ ~p1_value /\ ~p2_value /\ ~p3_value THEN <<0, 0, 0, 0, 0, 0>>
    ELSE IF ~p0_value /\ ~p1_value /\ ~p2_value /\  p3_value THEN <<0, 0, 1, 0, 1, 1>>
    ELSE IF ~p0_value /\ ~p1_value /\  p2_value /\ ~p3_value THEN <<0, 1, 0, 1, 1, 0>>
    ELSE IF ~p0_value /\ ~p1_value /\  p2_value /\  p3_value THEN <<0, 1, 1, 1, 0, 1>>
    ELSE IF ~p0_value /\  p1_value /\ ~p2_value /\ ~p3_value THEN <<1, 0, 0, 1, 0, 1>>
    ELSE IF ~p0_value /\  p1_value /\ ~p2_value /\  p3_value THEN <<1, 0, 1, 1, 1, 0>>
    ELSE IF ~p0_value /\  p1_value /\  p2_value /\ ~p3_value THEN <<1, 1, 0, 0, 1, 1>>
    ELSE IF ~p0_value /\  p1_value /\  p2_value /\  p3_value THEN <<1, 1, 1, 0, 0, 0>>
    ELSE IF  p0_value /\ ~p1_value /\ ~p2_value /\ ~p3_value THEN <<1, 1, 1, 0, 0, 0>>
    ELSE IF  p0_value /\ ~p1_value /\ ~p2_value /\  p3_value THEN <<1, 1, 0, 0, 1, 1>>
    ELSE IF  p0_value /\ ~p1_value /\  p2_value /\ ~p3_value THEN <<1, 0, 1, 1, 1, 0>>
    ELSE IF  p0_value /\ ~p1_value /\  p2_value /\  p3_value THEN <<1, 0, 0, 1, 0, 1>>
    ELSE IF  p0_value /\  p1_value /\ ~p2_value /\ ~p3_value THEN <<0, 1, 1, 1, 0, 1>>
    ELSE IF  p0_value /\  p1_value /\ ~p2_value /\  p3_value THEN <<0, 1, 0, 1, 1, 0>>
    ELSE IF  p0_value /\  p1_value /\  p2_value /\ ~p3_value THEN <<0, 0, 1, 0, 1, 1>>
    ELSE <<0, 0, 0, 0, 0, 0>>

\* (variant: <= in place of <)
InsideFlags_Le(tetra) == [i \in 1..4 |-> At(tetra.density, i - 1) <= ISOVALUE]

\* p0_value .. p3_value of one tetrahedron
InsideFlags(tetra) == [i \in 1..4 |-> At(tetra.density, i - 1) < ISOVALUE]

\* the by-value parameter cur_six_edges_rule when the function returns
get_vertice_density(six_tetrahedrons, six_edges_rule) ==
    six_edges_rule \o
    [t \in 1..Len(six_tetrahedrons) |->
        LET f == InsideFlags(six_tetrahedrons[t])
        IN  CaseMask(f[1], f[2], f[3], f[4])]

\* the locals p01 .. p31 of make_triangle, in the order they are computed
EdgeNames == <<"p01", "p02", "p03", "p12", "p23", "p31">>

\* the 0-based vertex subscripts each local is interpolated between
EdgeEnds(e) ==
    CASE e = "p01" -> <<0, 1>>
      [] e = "p02" -> <<0, 2>>
      [] e = "p03" -> <<0, 3>>
      [] e = "p12" -> <<1, 2>>
      [] e = "p23" -> <<2, 3>>
      [] e = "p31" -> <<3, 1>>

EdgePoint(tetra, e) ==
    interpolation(At(tetra.vertices, EdgeEnds(e)[1]), At(tetra.vertices, EdgeEnds(e)[2]),
                  At(tetra.density, EdgeEnds(e)[1]), At(tetra.density, EdgeEnds(e)[2]),
                  ISOVALUE)

\* (variant: the second triangle of rule 011101 is never pushed)
TriangleRecipe_DropTri2(rule) ==
    CASE rule = <<0, 0, 0, 0, 0, 0>> -> << >>
      [] rule = <<0, 0, 1, 0, 1, 1>> -> << <<"p03", "p23", "p31">> >>
      [] rule = <<0, 1, 0, 1, 1, 0>> -> << <<"p02", "p12", "p23">> >>
      [] rule = <<0, 1, 1, 1, 0, 1>> -> << <<"p02", "p03", "p31">> >>
      [] rule = <<1, 0, 0, 1, 0, 1>> -> << <<"p01", "p12", "p31">> >>
      [] rule = <<1, 0, 1, 1, 1, 0>> -> << <<"p01", "p03", "p23">>, <<"p01", "p12", "p23">> >>
      [] rule = <<1, 1, 0, 0, 1, 1>> -> << <<"p01", "p02", "p31">>, <<"p02", "p23", "p31">> >>
      [] rule = <<1, 1, 1, 0, 0, 0>> -> << <<"p01", "p02", "p03">> >>
      [] OTHER -> << >>

\* (variant: tri2 of rule 011101 takes p23 in place of p12)
TriangleRecipe_WrongEdge(rule) ==
    CASE rule = <<0, 0, 0, 0, 0, 0>> -> << >>
      [] rule = <<0, 0, 1, 0, 1, 1>> -> << <<"p03", "p23", "p31">> >>
      [] rule = <<0, 1, 0, 1, 1, 0>> -> << <<"p02", "p12", "p23">> >>
      [] rule = <<0, 1, 1, 1, 0, 1>> -> << <<"p02", "p03", "p31">>, <<"p02", "p31", "p23">> >>
      [] rule = <<1, 0, 0, 1, 0, 1>> -> << <<"p01", "p12", "p31">> >>
      [] rule = <<1, 0, 1, 1, 1, 0>> -> << <<"p01", "p03", "p23">>, <<"p01", "p12", "p23">> >>
      [] rule = <<1, 1, 0, 0, 1, 1>> -> << <<"p01", "p02", "p31">>, <<"p02", "p23", "p31">> >>
      [] rule = <<1, 1, 1, 0, 0, 0>> -> << <<"p01", "p02", "p03">> >>
      [] OTHER -> << >>

\* the locals pushed into tri1 (and tri2) for each edge rule
TriangleRecipe(rule) ==
    CASE rule = <<0, 0, 0, 0, 0, 0>> -> << >>
      [] rule = <<0, 0, 1, 0, 1, 1>> -> << <<"p03", "p23", "p31">> >>
      [] rule = <<0, 1, 0, 1, 1, 0>> -> << <<"p02", "p12", "p23">> >>
      [] rule = <<0, 1, 1, 1, 0, 1>> -> << <<"p02", "p03", "p31">>, <<"p02", "p31", "p12">> >>
      [] rule = <<1, 0, 0, 1, 0, 1>> -> << <<"p01", "p12", "p31">> >>
      [] rule = <<1, 0, 1, 1, 1, 0>> -> << <<"p01", "p03", "p23">>, <<"p01", "p12", "p23">> >>
      [] rule = <<1, 1, 0, 0, 1, 1>> -> << <<"p01", "p02", "p31">>, <<"p02", "p23", "p31">> >>
      [] rule = <<1, 1, 1, 0, 0, 0>> -> << <<"p01", "p02", "p03">> >>
      [] OTHER -> << >>

\* the triangles one loop iteration of make_triangle pushes
TrianglesOf(tetra, rule) ==
    [k \in 1..Len(TriangleRecipe(rule)) |->
        [vertices |-> [i \in 1..3 |-> EdgePoint(tetra, TriangleRecipe(rule)[k][i])]]]

RECURSIVE MakeTriangleLoop(_, _, _, _)
MakeTriangleLoop(tris, six_tetrahedrons, six_edges_rule, t) ==
    IF t > Len(six_tetrahedrons)
    THEN tris
    ELSE MakeTriangleLoop(tris \o TrianglesOf(six_tetrahedrons[t], six_edges_rule[t]),
                          six_tetrahedrons, six_edges_rule, t + 1)

\* the by-value parameter triangles when the function returns
make_triangle(tris, six_tetrahedrons, six_edges_rule) ==
    MakeTriangleLoop(tris, six_tetrahedrons, six_edges_rule, 1)

\* the calls of interpolation make_triangle makes: tetrahedron t (0-based), local, densities
InterpCalls(six_tetrahedrons) ==
    { [t |-> t - 1, edge |-> EdgeNames[e],
       pt1_density |-> At(six_tetrahedrons[t].density, EdgeEnds(EdgeNames[e])[1]),
       pt2_density |-> At(six_tetrahedrons[t].density, EdgeEnds(EdgeNames[e])[2])] :
        t \in 1..Len(six_tetrahedrons), e \in 1..6 }

----------------------------------------------------------------------------
(* main.cpp *)

\* find_min_pixel / find_max_pixel: the bounding box of the samples
MinOf(S) == CHOOSE m \in S : \A k \in S : m <= k

MaxOf(S) == CHOOSE m \in S : \A k \in S : m >= k

find_min_pixel(vs) == [a \in 1..3 |-> MinOf({ vs[i][a] : i \in 1..Len(vs) })]

find_max_pixel(vs) == [a \in 1..3 |-> MaxOf({ vs[i][a] : i \in 1..Len(vs) })]

\* the first value of a loop variable: min - voxel_d
LoopStart_NoOverscan(min_v, d) == min_v

LoopStart(min_v, d) == min_v - d

\* the loop condition: v <= max
LoopCond(v, max_v) == v <= max_v

\* a vector passed by value: what the caller holds after the call
AfterCall(caller_vector, callee_vector) == caller_vector

EmptyVoxel == [vertices |-> << >>, density |-> << >>]

\* a tetrahedron with a corner below ISOVALUE and a corner not below it
Crossing(tetra) ==
    /\ \E i \in 1..4 : tetra.density[i] < ISOVALUE
    /\ \E i \in 1..4 : tetra.density[i] >= ISOVALUE

SamplePositions == { <<a, b, c>> : a \in 0..MaxCoord, b \in 0..MaxCoord, c \in 0..MaxCoord }

Steps == { <<a, b, c>> : a \in 1..MaxStep, b \in 1..MaxStep, c \in 1..MaxStep }

PointClouds ==
    UNION { { [vertices |-> vs, density |-> ds] :
                vs \in [1..n -> SamplePositions], ds \in [1..n -> DensityVals] } :
            n \in 1..MaxSamples }

\* the state main is in when it reaches the traversal (line 53)
TraversalStart(pointcloud, d) ==
    /\ pointcloud_with_density = pointcloud
    /\ mins = find_min_pixel(pointcloud.vertices)
    /\ maxs = find_max_pixel(pointcloud.vertices)
    /\ voxel_d = d
    /\ z = LoopStart(find_min_pixel(pointcloud.vertices)[3], d[3])
    /\ y = LoopStart(find_min_pixel(pointcloud.vertices)[2], d[2])
    /\ x = LoopStart(find_min_pixel(pointcloud.vertices)[1], d[1])
    /\ pc = "z"
    /\ cur_voxel = EmptyVoxel
    /\ cur_six_tetrahedrons = << >>
    /\ cur_six_edges_rule = << >>
    /\ triangles = << >>
    /\ callee_tetrahedrons = << >>
    /\ callee_edges_rule = << >>
    /\ callee_triangles = << >>
    /\ density_reads = {}
    /\ interp_calls = {}
    /\ visited = << >>
    /\ n_before = 0
    /\ crossed = FALSE

Init == \E pointcloud \in PointClouds, d \in Steps : TraversalStart(pointcloud, d)

loop_unchanged == <<pointcloud_with_density, mins, maxs, voxel_d, cur_voxel,
                    cur_six_tetrahedrons, cur_six_edges_rule, triangles,
                    callee_tetrahedrons, callee_edges_rule, callee_triangles,
                    density_reads, interp_calls, visited, n_before, crossed>>

\* for (float z = min_z - voxel_dz; z <= max_z; ...): the test holds
ZEnter ==
    /\ pc = "z"
    /\ LoopCond(z, maxs[3])
    /\ y' = LoopStart(mins[2], voxel_d[2])
    /\ pc' = "y"
    /\ UNCHANGED <<x, z, loop_unchanged>>

\* the test of the z loop fails: the traversal is over
ZExit ==
    /\ pc = "z"
    /\ ~LoopCond(z, maxs[3])
    /\ pc' = "done"
    /\ UNCHANGED <<x, y, z, loop_unchanged>>

YEnter ==
    /\ pc = "y"
    /\ LoopCond(y, maxs[2])
    /\ x' = LoopStart(mins[1], voxel_d[1])
    /\ pc' = "x"
    /\ UNCHANGED <<y, z, loop_unchanged>>

\* the y loop ends: z += voxel_dz
YExit ==
    /\ pc = "y"
    /\ ~LoopCond(y, maxs[2])
    /\ z' = z + voxel_d[3]
    /\ pc' = "z"
    /\ UNCHANGED <<x, y, loop_unchanged>>

\* the body of the x loop (lines 60-74), then x += voxel_dx
Cell ==
    /\ pc = "x"
    /\ LoopCond(x, maxs[1])
    /\ \E ub \in OutOfRangeValues(pointcloud_with_density,
                                   VoxelCorners(x, y, z, voxel_d[1], voxel_d[2], voxel_d[3])) :
        LET voxel == init_voxel_vertices(pointcloud_with_density, x, y, z,
                                         voxel_d[1], voxel_d[2], voxel_d[3], ub)
            tets_in_callee  == divide_into_six_triangles(voxel, << >>)
            tets_in_main    == AfterCall(<< >>, tets_in_callee)
            rules_in_callee == get_vertice_density(tets_in_main, << >>)
            rules_in_main   == AfterCall(<< >>, rules_in_callee)
            tris_in_callee  == make_triangle(triangles, tets_in_main, rules_in_main)
        IN  /\ cur_voxel' = voxel
            /\ density_reads' = DensityReads(pointcloud_with_density, voxel.vertices)
            /\ callee_tetrahedrons' = tets_in_callee
            /\ cur_six_tetrahedrons' = tets_in_main
            /\ callee_edges_rule' = rules_in_callee
            /\ cur_six_edges_rule' = rules_in_main
            /\ interp_calls' = InterpCalls(tets_in_main)
            /\ callee_triangles' = tris_in_callee
            /\ triangles' = AfterCall(triangles, tris_in_callee)
            /\ crossed' = (crossed \/ \E k \in 1..Len(tets_in_callee) : Crossing(tets_in_callee[k]))
    /\ n_before' = Len(triangles)
    /\ visited' = Append(visited, <<x, y, z>>)
    /\ x' = x + voxel_d[1]
    /\ UNCHANGED <<pointcloud_with_density, mins, maxs, voxel_d, y, z, pc>>

\* the x loop ends: y += voxel_dy
XExit ==
    /\ pc = "x"
    /\ ~LoopCond(x, maxs[1])
    /\ y' = y + voxel_d[2]
    /\ pc' = "y"
    /\ UNCHANGED <<x, z, loop_unchanged>>

Next == ZEnter \/ ZExit \/ YEnter \/ YExit \/ Cell \/ XExit

Spec == Init /\ [][Next]_vars

----------------------------------------------------------------------------
(* The traversal over a bounding box: the point set is the box's two corners *)

Extents == { <<a, b, c>> : a \in 0..MaxExtent, b \in 0..MaxExtent, c \in 0..MaxExtent }

BoxCloud(e) == [vertices |-> << <<0, 0, 0>>, e >>, density |-> <<MaxDensity, MaxDensity>>]

BoxInit == \E e \in Extents, d \in Steps : TraversalStart(BoxCloud(e), d)

BoxSpec == BoxInit /\ [][Next]_vars

----------------------------------------------------------------------------
(* The three stages called in turn on one voxel, each on the vector the    *)
(* stage before it built                                                   *)

NoCloud == [vertices |-> << >>, density |-> << >>]

\* everything but pc, cur_voxel, x, y, z, voxel_d and the callees' vectors
harness_idle == <<pointcloud_with_density, mins, maxs, cur_six_tetrahedrons,
                  cur_six_edges_rule, triangles, density_reads, visited, n_before, crossed>>

HarnessStart(pointcloud, origin, d, voxel, at) ==
    /\ pointcloud_with_density = pointcloud
    /\ mins = origin
    /\ maxs = origin
    /\ voxel_d = d
    /\ x = origin[1]
    /\ y = origin[2]
    /\ z = origin[3]
    /\ pc = at
    /\ cur_voxel = voxel
    /\ cur_six_tetrahedrons = << >>
    /\ cur_six_edges_rule = << >>
    /\ triangles = << >>
    /\ callee_tetrahedrons = << >>
    /\ callee_edges_rule = << >>
    /\ callee_triangles = << >>
    /\ density_reads = {}
    /\ interp_calls = {}
    /\ visited = << >>
    /\ n_before = 0
    /\ crossed = FALSE

UnitInit ==
    \E ds \in [1..8 -> DensityVals] :
        HarnessStart(NoCloud, <<0, 0, 0>>, <<1, 1, 1>>,
                     [vertices |-> VoxelCorners(0, 0, 0, 1, 1, 1), density |-> ds], "divide")

CallDivide ==
    /\ pc = "divide"
    /\ callee_tetrahedrons' = divide_into_six_triangles(cur_voxel, << >>)
    /\ pc' = "classify"
    /\ UNCHANGED <<harness_idle, cur_voxel, x, y, z, voxel_d, callee_edges_rule,
                   callee_triangles, interp_calls>>

CallGetDensity ==
    /\ pc = "classify"
    /\ callee_edges_rule' = get_vertice_density(callee_tetrahedrons, << >>)
    /\ pc' = "triangulate"
    /\ UNCHANGED <<harness_idle, cur_voxel, x, y, z, voxel_d, callee_tetrahedrons,
                   callee_triangles, interp_calls>>

CallMakeTriangle ==
    /\ pc = "triangulate"
    /\ callee_triangles' = make_triangle(<< >>, callee_tetrahedrons, callee_edges_rule)
    /\ interp_calls' = InterpCalls(callee_tetrahedrons)
    /\ pc' = "end"
    /\ UNCHANGED <<harness_idle, cur_voxel, x, y, z, voxel_d, callee_tetrahedrons,
                   callee_edges_rule>>

UnitNext == CallDivide \/ CallGetDensity \/ CallMakeTriangle

UnitSpec == UnitInit /\ [][UnitNext]_vars

----------------------------------------------------------------------------
(* The voxel builder and the decomposer on one cell *)

Origins == { <<a, b, c>> : a \in -1..0, b \in -1..0, c \in -1..0 }

\* two samples: one beyond every cell, one at <<0, 0, 0>>
DecompCloud ==
    [vertices |-> << <<MaxStep + 1, MaxStep + 1, MaxStep + 1>>, <<0, 0, 0>> >>,
     density  |-> <<ISOVALUE - 1, MaxDensity>>]

DecompInit ==
    \E o \in Origins, d \in Steps :
        HarnessStart(DecompCloud, o, d, EmptyVoxel, "init_voxel")

CallInitVoxel ==
    /\ pc = "init_voxel"
    /\ \E ub \in OutOfRangeValues(pointcloud_with_density,
                                   VoxelCorners(x, y, z, voxel_d[1], voxel_d[2], voxel_d[3])) :
        cur_voxel' = init_voxel_vertices(pointcloud_with_density, x, y, z,
                                         voxel_d[1], voxel_d[2], voxel_d[3], ub)
    /\ density_reads' = DensityReads(pointcloud_with_density,
                                     VoxelCorners(x, y, z, voxel_d[1], voxel_d[2], voxel_d[3]))
    /\ pc' = "divide"
    /\ UNCHANGED <<pointcloud_with_density, mins, maxs, voxel_d, x, y, z,
                   cur_six_tetrahedrons, cur_six_edges_rule, triangles,
                   callee_tetrahedrons, callee_edges_rule, callee_triangles,
                   interp_calls, visited, n_before, crossed>>

CallDivideOnCell ==
    /\ pc = "divide"
    /\ callee_tetrahedrons' = divide_into_six_triangles(cur_voxel, << >>)
    /\ pc' = "end"
    /\ UNCHANGED <<harness_idle, cur_voxel, x, y, z, voxel_d, callee_edges_rule,
                   callee_triangles, interp_calls>>

DecompNext == CallInitVoxel \/ CallDivideOnCell

DecompSpec == DecompInit /\ [][DecompNext]_vars

----------------------------------------------------------------------------
(* What the header's table and the design state, for comparison *)

\* the case table: inside pattern <<p0, p1, p2, p3>> -> edges
\* <<p0p1, p0p2, p0p3, p1p2, p2p3, p3p1>>, all 16 rows
CaseTableRows ==
    LET T == TRUE
        F == FALSE
    IN  { << <<F, F, F, F>>, <<0, 0, 0, 0, 0, 0>> >>,
          << <<F, F, F, T>>, <<0, 0, 1, 0, 1, 1>> >>,
          << <<F, F, T, F>>, <<0, 1, 0, 1, 1, 0>> >>,
          << <<F, F, T, T>>, <<0, 1, 1, 1, 0, 1>> >>,
          << <<F, T, F, F>>, <<1, 0, 0, 1, 0, 1>> >>,
          << <<F, T, F, T>>, <<1, 0, 1, 1, 1, 0>> >>,
          << <<F, T, T, F>>, <<1, 1, 0, 0, 1, 1>> >>,
          << <<F, T, T, T>>, <<1, 1, 1, 0, 0, 0>> >>,
          << <<T, F, F, F>>, <<1, 1, 1, 0, 0, 0>> >>,
          << <<T, F, F, T>>, <<1, 1, 0, 0, 1, 1>> >>,
          << <<T, F, T, F>>, <<1, 0, 1, 1, 1, 0>> >>,
          << <<T, F, T, T>>, <<1, 0, 0, 1, 0, 1>> >>,
          << <<T, T, F, F>>, <<0, 1, 1, 1, 0, 1>> >>,
          << <<T, T, F, T>>, <<0, 1, 0, 1, 1, 0>> >>,
          << <<T, T, T, F>>, <<0, 0, 1, 0, 1, 1>> >>,
          << <<T, T, T, T>>, <<0, 0, 0, 0, 0, 0>> >> }

LookupTable(pattern) == (CHOOSE r \in CaseTableRows : r[1] = pattern)[2]

\* inside(pi) of a tetrahedron, as the design defines it
Inside(tetra) == [i \in 1..4 |-> tetra.density[i] < ISOVALUE]

Complement(pattern) == [i \in 1..4 |-> ~pattern[i]]

\* the eight edge rules with their triangles, as edge-point names
RecipeTable ==
    { << <<0, 0, 0, 0, 0, 0>>, << >> >>,
      << <<0, 0, 1, 0, 1, 1>>, << <<"p03", "p23", "p31">> >> >>,
      << <<0, 1, 0, 1, 1, 0>>, << <<"p02", "p12", "p23">> >> >>,
      << <<0, 1, 1, 1, 0, 1>>, << <<"p02", "p03", "p31">>, <<"p02", "p31", "p12">> >> >>,
      << <<1, 0, 0, 1, 0, 1>>, << <<"p01", "p12", "p31">> >> >>,
      << <<1, 0, 1, 1, 1, 0>>, << <<"p01", "p03", "p23">>, <<"p01", "p12", "p23">> >> >>,
      << <<1, 1, 0, 0, 1, 1>>, << <<"p01", "p02", "p31">>, <<"p02", "p23", "p31">> >> >>,
      << <<1, 1, 1, 0, 0, 0>>, << <<"p01", "p02", "p03">> >> >> }

EightMasks == { r[1] : r \in RecipeTable }

RecipeOf(mask) == (CHOOSE r \in RecipeTable : r[1] = mask)[2]

\* the point on edge pa-pb (0-based) of a tetrahedron where the density is ISOVALUE
PointOnEdge(tetra, a, b) ==
    interpolation(tetra.vertices[a + 1], tetra.vertices[b + 1],
                  tetra.density[a + 1], tetra.density[b + 1], ISOVALUE)

NamedPoint(tetra, e) ==
    CASE e = "p01" -> PointOnEdge(tetra, 0, 1)
      [] e = "p02" -> PointOnEdge(tetra, 0, 2)
      [] e = "p03" -> PointOnEdge(tetra, 0, 3)
      [] e = "p12" -> PointOnEdge(tetra, 1, 2)
      [] e = "p23" -> PointOnEdge(tetra, 2, 3)
      [] e = "p31" -> PointOnEdge(tetra, 3, 1)

TriangleOn(tetra, names) == [vertices |-> [i \in 1..3 |-> NamedPoint(tetra, names[i])]]

RECURSIVE ExpectedTriangles(_, _, _)
ExpectedTriangles(tets, masks, t) ==
    IF t > Len(tets)
    THEN << >>
    ELSE [k \in 1..Len(RecipeOf(masks[t])) |-> TriangleOn(tets[t], RecipeOf(masks[t])[k])]
         \o ExpectedTriangles(tets, masks, t + 1)

\* the bit of an edge in a mask
BitOf(e) == CHOOSE i \in 1..6 : EdgeNames[i] = e

\* the edge points a list of triangles (as names) uses
UsedEdges(recipe) == { recipe[k][i] : k \in 1..Len(recipe), i \in 1..3 }

\* the edges of a tetrahedron whose endpoints are on different sides
CrossingEdges(tetra) ==
    { e \in { EdgeNames[i] : i \in 1..6 } :
        Inside(tetra)[EdgeEnds(e)[1] + 1] # Inside(tetra)[EdgeEnds(e)[2] + 1] }

\* two edges of a tetrahedron with no common endpoint
Opposite(e1, e2) ==
    {EdgeEnds(e1)[1], EdgeEnds(e1)[2]} \cap {EdgeEnds(e2)[1], EdgeEnds(e2)[2]} = {}

----------------------------------------------------------------------------
(* Claims on the case classifier and the triangulator *)

\* C2: for each of the 16 inside/outside combinations get_vertice_density produces
\* the mask the lookup table gives, one mask per tetrahedron, and the mask of the
\* complementary combination is the same
C2_MaskMatchesTable ==
    pc \in {"triangulate", "end"} =>
        /\ Len(callee_edges_rule) = Len(callee_tetrahedrons)
        /\ \A t \in 1..Len(callee_tetrahedrons) :
            /\ callee_edges_rule[t] = LookupTable(Inside(callee_tetrahedrons[t]))
            /\ LET c == Complement(Inside(callee_tetrahedrons[t]))
               IN  CaseMask(c[1], c[2], c[3], c[4]) = callee_edges_rule[t]

\* a voxel whose six tetrahedra were classified, with a one-corner and a two-corner pattern
C2_Witness ==
    /\ pc = "triangulate"
    /\ Len(callee_edges_rule) = 6
    /\ \E t \in 1..6 : Inside(callee_tetrahedrons[t]) = <<FALSE, FALSE, TRUE, TRUE>>
    /\ \E t \in 1..6 : Inside(callee_tetrahedrons[t]) = <<TRUE, TRUE, TRUE, FALSE>>

\* C3: for each of the eight masks make_triangle emits exactly 0, 1, 1, 2, 1, 2, 2, 1
\* triangles, with the three vertices the recipe lists in that order; every mask is
\* one of the eight, and no tetrahedron gives more than two triangles
C3_TrianglesPerMask ==
    pc = "end" =>
        /\ \A t \in 1..Len(callee_edges_rule) :
            /\ callee_edges_rule[t] \in EightMasks
            /\ Len(RecipeOf(callee_edges_rule[t])) <= 2
        /\ callee_triangles = ExpectedTriangles(callee_tetrahedrons, callee_edges_rule, 1)
        /\ \A k \in 1..Len(callee_triangles) : Len(callee_triangles[k].vertices) = 3

\* make_triangle has run on a voxel with a two-triangle, a one-triangle and an empty case
C3_Witness ==
    /\ pc = "end"
    /\ \E t \in 1..6 : callee_edges_rule[t] = <<0, 1, 1, 1, 0, 1>>
    /\ \E t \in 1..6 : callee_edges_rule[t] = <<1, 0, 0, 1, 0, 1>>
    /\ \E t \in 1..6 : callee_edges_rule[t] = <<0, 0, 0, 0, 0, 0>>
    /\ Len(callee_triangles) >= 3

\* C9: the edge points used by the triangles emitted for a tetrahedron are exactly its
\* crossing edges, and two triangles of one tetrahedron share exactly two edge points,
\* which lie on opposite edges (a diagonal of the crossing quadrilateral)
C9_UsedEdgesAreCrossingEdges ==
    pc = "end" =>
        \A t \in 1..Len(callee_tetrahedrons) :
            LET recipe == TriangleRecipe(callee_edges_rule[t])
            IN  /\ UsedEdges(recipe) = CrossingEdges(callee_tetrahedrons[t])
                /\ Len(recipe) = 2 =>
                    LET shared == UsedEdges(<<recipe[1]>>) \cap UsedEdges(<<recipe[2]>>)
                    IN  /\ Cardinality(shared) = 2
                        /\ \A e1, e2 \in shared : e1 # e2 => Opposite(e1, e2)

\* a tetrahedron with two corners inside has been triangulated
C9_Witness ==
    /\ pc = "end"
    /\ \E t \in 1..6 :
        /\ Cardinality(CrossingEdges(callee_tetrahedrons[t])) = 4
        /\ Len(TriangleRecipe(callee_edges_rule[t])) = 2

\* 0 <= mu <= 1, and mu is 0 or 1 only when that endpoint's density is ISOVALUE
MuInRange(d1, d2) ==
    LET mu == InterpMu(d1, d2, ISOVALUE)
    IN  /\ mu.d > 0
        /\ 0 <= mu.n
        /\ mu.n <= mu.d
        /\ mu.n = 0 => d1 = ISOVALUE
        /\ mu.n = mu.d => d2 = ISOVALUE

\* C7 as stated: every call of interpolation is on an edge whose mask bit is 1, never
\* with equal densities, and mu is in range
C7_InterpolationOnlyOnCrossingEdges ==
    \A c \in interp_calls :
        /\ callee_edges_rule[c.t + 1][BitOf(c.edge)] = 1
        /\ c.pt1_density # c.pt2_density
        /\ MuInRange(c.pt1_density, c.pt2_density)

\* C7 amended: interpolation is called for all six edges of every tetrahedron, and
\* every edge point that becomes a triangle vertex is on an edge whose mask bit is 1,
\* with unequal densities and mu in range
C7_UsedPointsOnCrossingEdges ==
    pc = "end" =>
        /\ Cardinality(interp_calls) = 6 * Len(callee_tetrahedrons)
        /\ \A t \in 1..Len(callee_tetrahedrons) :
            \A e \in UsedEdges(TriangleRecipe(callee_edges_rule[t])) :
                \E c \in interp_calls :
                    /\ c.t = t - 1
                    /\ c.edge = e
                    /\ callee_edges_rule[t][BitOf(e)] = 1
                    /\ c.pt1_density # c.pt2_density
                    /\ MuInRange(c.pt1_density, c.pt2_density)

\* a used edge point strictly inside its edge, and a call with equal densities
C7_Witness ==
    /\ pc = "end"
    /\ \E c \in interp_calls : c.pt1_density = c.pt2_density
    /\ \E t \in 1..6 :
        \E e \in UsedEdges(TriangleRecipe(callee_edges_rule[t])) :
            \E c \in interp_calls :
                /\ c.t = t - 1
                /\ c.edge = e
                /\ InterpMu(c.pt1_density, c.pt2_density, ISOVALUE) = [n |-> 1, d |-> 2]

----------------------------------------------------------------------------
(* Claims on the decomposition *)

\* the decomposition of the design: corner indices in p0, p1, p2, p3 order, T1..T6
DecompositionTable ==
    << <<3, 7, 4, 5>>, <<3, 7, 5, 6>>, <<3, 5, 4, 0>>,
       <<5, 1, 0, 3>>, <<5, 1, 3, 2>>, <<3, 5, 2, 6>> >>

Sub(a, b) == <<a[1] - b[1], a[2] - b[2], a[3] - b[3]>>

Scale(k, a) == <<k * a[1], k * a[2], k * a[3]>>

Det3(u, v, w) ==
      u[1] * (v[2] * w[3] - v[3] * w[2])
    - u[2] * (v[1] * w[3] - v[3] * w[1])
    + u[3] * (v[1] * w[2] - v[2] * w[1])

\* six times the signed volume of the tetrahedron a, b, c, d
Vol6(a, b, c, d) == Det3(Sub(b, a), Sub(c, a), Sub(d, a))

\* the four barycentric determinants of q in the tetrahedron with vertices vs
Bary(vs, q) ==
    << Vol6(q, vs[2], vs[3], vs[4]), Vol6(vs[1], q, vs[3], vs[4]),
       Vol6(vs[1], vs[2], q, vs[4]), Vol6(vs[1], vs[2], vs[3], q) >>

InClosed(vs, q) ==
    LET s == Sgn(Vol6(vs[1], vs[2], vs[3], vs[4]))
    IN  s # 0 /\ \A i \in 1..4 : s * Bary(vs, q)[i] >= 0

InInterior(vs, q) ==
    LET s == Sgn(Vol6(vs[1], vs[2], vs[3], vs[4]))
    IN  s # 0 /\ \A i \in 1..4 : s * Bary(vs, q)[i] > 0

\* the lattice of (Refine+1)^3 points of the voxel, in units of 1/Refine
Lattice(origin, d) ==
    { <<Refine * origin[1] + i * d[1], Refine * origin[2] + j * d[2],
        Refine * origin[3] + k * d[3]>> : i \in 0..Refine, j \in 0..Refine, k \in 0..Refine }

\* the vertices of a tetrahedron in units of 1/Refine
Scaled(tetra) == [i \in 1..4 |-> Scale(Refine, tetra.vertices[i])]

RECURSIVE SumAbsVol6(_, _)
SumAbsVol6(tets, k) ==
    IF k > Len(tets)
    THEN 0
    ELSE Abs(Vol6(tets[k].vertices[1], tets[k].vertices[2],
                  tets[k].vertices[3], tets[k].vertices[4]))
         + SumAbsVol6(tets, k + 1)

\* C6: the six tetrahedra divide_into_six_triangles builds take the corners
\* T1=(3,7,4,5) .. T6=(3,5,2,6) of the layout v0..v7 with parallel densities, and tile
\* the voxel: their volumes sum to the voxel's, every lattice point of the voxel is in a
\* tetrahedron and none is interior to two
C6_TetrahedraTileVoxel ==
    pc = "end" =>
        /\ Len(callee_tetrahedrons) = 6
        /\ cur_voxel.vertices = << <<x, y, z>>,
                                   <<x + voxel_d[1], y, z>>,
                                   <<x + voxel_d[1], y, z + voxel_d[3]>>,
                                   <<x, y, z + voxel_d[3]>>,
                                   <<x, y + voxel_d[2], z>>,
                                   <<x + voxel_d[1], y + voxel_d[2], z>>,
                                   <<x + voxel_d[1], y + voxel_d[2], z + voxel_d[3]>>,
                                   <<x, y + voxel_d[2], z + voxel_d[3]>> >>
        /\ \A k \in 1..6 : \A i \in 1..4 :
            /\ callee_tetrahedrons[k].vertices[i] = cur_voxel.vertices[DecompositionTable[k][i] + 1]
            /\ callee_tetrahedrons[k].density[i] = cur_voxel.density[DecompositionTable[k][i] + 1]
        /\ SumAbsVol6(callee_tetrahedrons, 1) = 6 * voxel_d[1] * voxel_d[2] * voxel_d[3]
        /\ \A q \in Lattice(<<x, y, z>>, voxel_d) :
            /\ \E k \in 1..6 : InClosed(Scaled(callee_tetrahedrons[k]), q)
            /\ \A k, l \in 1..6 :
                k # l => ~(InInterior(Scaled(callee_tetrahedrons[k]), q)
                           /\ InInterior(Scaled(callee_tetrahedrons[l]), q))

\* a voxel with three different steps has been divided, and a lattice point is
\* interior to one of its tetrahedra
C6_Witness ==
    /\ pc = "end"
    /\ Len(callee_tetrahedrons) = 6
    /\ voxel_d[1] # voxel_d[2]
    /\ <<x, y, z>> = <<-1, 0, -1>>
    /\ \E q \in Lattice(<<x, y, z>>, voxel_d) :
        \E k \in 1..6 : InInterior(Scaled(callee_tetrahedrons[k]), q)

----------------------------------------------------------------------------
(* Claims on the traversal of main *)

\* C1: each stage's output reaches the next stage and the caller's sequence, and when
\* the traversal ends after a cell with a crossing tetrahedron, triangles is non-empty
C1_TrianglesReachResult ==
    /\ visited # << >> =>
        /\ cur_six_tetrahedrons = callee_tetrahedrons
        /\ cur_six_edges_rule = callee_edges_rule
        /\ triangles = callee_triangles
    /\ pc = "done" /\ crossed => triangles # << >>

\* the corner positions of the cell last processed
LastCorners ==
    LET o == visited[Len(visited)]
    IN  VoxelCorners(o[1], o[2], o[3], voxel_d[1], voxel_d[2], voxel_d[3])

\* C4: the voxel holds the 8 corners v0..v7 and 8 densities; the density of a corner
\* is the density of a sample at that corner's position, and 1 when there is none
C4_CornerDensityOfItsSample ==
    visited # << >> =>
        /\ cur_voxel.vertices = LastCorners
        /\ Len(cur_voxel.density) = 8
        /\ \A i \in 1..8 :
            LET same == { k \in 1..Len(pointcloud_with_density.vertices) :
                            pointcloud_with_density.vertices[k] = cur_voxel.vertices[i] }
            IN  IF same = {}
                THEN cur_voxel.density[i] = 1
                ELSE \E k \in same : cur_voxel.density[i] = pointcloud_with_density.density[k]

\* exactly corner v0 of the voxel is below ISOVALUE, the other seven are above it
OnlyV0Below(voxel) ==
    /\ Len(voxel.density) = 8
    /\ voxel.density[1] < ISOVALUE
    /\ \A i \in 2..8 : voxel.density[i] > ISOVALUE

\* C5: a voxel with only v0 below ISOVALUE adds to the result exactly the triangle
\* (p03, p23, p31) of T3 = (3,5,4,0) and the triangle (p02, p12, p23) of T4 = (5,1,0,3)
C5_OnlyV0Inside ==
    visited # << >> /\ OnlyV0Below(cur_voxel) =>
        LET T3 == [vertices |-> << cur_voxel.vertices[4], cur_voxel.vertices[6],
                                   cur_voxel.vertices[5], cur_voxel.vertices[1] >>,
                   density  |-> << cur_voxel.density[4], cur_voxel.density[6],
                                   cur_voxel.density[5], cur_voxel.density[1] >>]
            T4 == [vertices |-> << cur_voxel.vertices[6], cur_voxel.vertices[2],
                                   cur_voxel.vertices[1], cur_voxel.vertices[4] >>,
                   density  |-> << cur_voxel.density[6], cur_voxel.density[2],
                                   cur_voxel.density[1], cur_voxel.density[4] >>]
        IN  SubSeq(triangles, n_before + 1, Len(triangles)) =
                << TriangleOn(T3, <<"p03", "p23", "p31">>),
                   TriangleOn(T4, <<"p02", "p12", "p23">>) >>

\* C10: every subscript at which init_voxel_vertices reads the density array is in
\* 0 .. (number of samples - 1)
C10_DensityReadsInRange ==
    \A k \in density_reads : k \in 0..(Len(pointcloud_with_density.density) - 1)

\* the values a loop variable takes: min - d, min, ... up to the largest <= max
AxisValues(min_v, max_v, d) ==
    [k \in 1..((max_v - min_v) \div d + 2) |-> min_v - d + (k - 1) * d]

\* the cell origins in traversal order: z outermost, then y, x innermost
ExpectedOrigins ==
    LET xs == AxisValues(mins[1], maxs[1], voxel_d[1])
        ys == AxisValues(mins[2], maxs[2], voxel_d[2])
        zs == AxisValues(mins[3], maxs[3], voxel_d[3])
    IN  [n \in 1..(Len(xs) * Len(ys) * Len(zs)) |->
            << xs[((n - 1) % Len(xs)) + 1],
               ys[(((n - 1) \div Len(xs)) % Len(ys)) + 1],
               zs[((n - 1) \div (Len(xs) * Len(ys))) + 1] >>]

Visited(o) == \E n \in 1..Len(visited) : visited[n] = o

StepsDivideBox == \A a \in 1..3 : (maxs[a] - mins[a]) % voxel_d[a] = 0

\* C8 as stated: when the traversal has ended, each origin was processed exactly once
\* in z, y, x order, and the origin below min and the origin equal to max were visited
C8_VisitsMinBelowAndMax ==
    pc = "done" =>
        /\ visited = ExpectedOrigins
        /\ Visited(<<mins[1] - voxel_d[1], mins[2] - voxel_d[2], mins[3] - voxel_d[3]>>)
        /\ Visited(maxs)

\* how many values of a loop variable are left, the current one included
Remaining(v, max_v, d) == IF v <= max_v THEN (max_v - v) \div d + 1 ELSE 0

\* the steps main has left: loop tests, cells and loop exits
StepsLeft ==
    LET nx   == Len(AxisValues(mins[1], maxs[1], voxel_d[1]))
        ny   == Len(AxisValues(mins[2], maxs[2], voxel_d[2]))
        perY == nx + 2
        perZ == ny * perY + 2
        rx   == Remaining(x, maxs[1], voxel_d[1])
        ry   == Remaining(y, maxs[2], voxel_d[2])
        rz   == Remaining(z, maxs[3], voxel_d[3])
    IN  CASE pc = "done" -> 0
          [] pc = "z" -> rz * perZ + 1
          [] pc = "y" -> ry * perY + 1 + (rz - 1) * perZ + 1
          [] pc = "x" -> rx + 1 + (ry - 1) * perY + 1 + (rz - 1) * perZ + 1

\* C8 amended: the traversal ends (every step of main leaves one step fewer, and main
\* can step until it is done); it has then processed each origin exactly once in
\* z, y, x order, the origin below min among them, and the origin equal to max exactly
\* when the steps divide the box
C8_TraversalTerminatesInOrder ==
    /\ [][StepsLeft' = StepsLeft - 1]_vars
    /\ [](StepsLeft >= 0 /\ (StepsLeft = 0 <=> pc = "done"))
    /\ [](pc # "done" => ENABLED Next)
    /\ [](pc = "done" =>
            /\ visited = ExpectedOrigins
            /\ Visited(<<mins[1] - voxel_d[1], mins[2] - voxel_d[2], mins[3] - voxel_d[3]>>)
            /\ Visited(maxs) <=> StepsDivideBox)

\* a traversal that ended on a box the steps do not divide, after more than one slab
C8_Witness ==
    /\ pc = "done"
    /\ ~StepsDivideBox
    /\ maxs = <<1, 1, 0>>
    /\ voxel_d = <<2, 1, 1>>
    /\ Len(visited) = 2 * 3 * 2

=============================================================================
